---- MODULE Spec2Model ----
(***************************************************************************)
(* A model of src/agent.py: the interactive loop of main() with its        *)
(* conversation history and stream-event dispatch, and the tool            *)
(* fetch_youtube_transcript (video-id extraction, retrieval, formatting).  *)
(*                                                                         *)
(* Python strings that the code transforms (strip, lower, regex match,     *)
(* f-string concatenation, join) are sequences of one-character strings.   *)
(* Strings that the code only passes through to print() are TLA+ strings.  *)
(***************************************************************************)
EXTENDS Integers, Sequences, FiniteSets, TLC

VARIABLES
    \* ---- main() ----
    input_items,   \* the conversation history (list of {"content", "role"})
    user_input,    \* the stripped text of the line read last
    line,          \* the raw text input() returned last
    pc,            \* "waiting" | "streaming" | "terminated" | "crashed"
    printed,       \* what the step just taken wrote to the terminal
    passed,        \* the sequence handed to Runner.run_streamed last
    turnAppended,  \* the items appended while dispatching the current turn
    turns,         \* number of Runner.run_streamed invocations so far
    cycles,        \* number of lines read so far
    appends,       \* number of input_items.append calls made so far
    consumed,      \* number of events consumed so far in the session
    lastEvent,     \* the event handled by the step just taken (or NoEvent)
    turnOutputs,   \* the tool-output and message-output events of the current turn
    runtimeRaised, \* whether the agent runtime has raised an exception
    \* ---- fetch_youtube_transcript() ----
    tpc,           \* "idle" | "fetching" | "returned" | "raised"
    url,           \* the argument of the current invocation
    video_id,      \* group(1) of the match, or NoId
    transcript,    \* what YouTubeTranscriptApi.get_transcript returned
    formatted_entries, \* the list built by the for loop
    result,        \* the returned string
    error,         \* the exception raised: NoError or [type, message]
    calls,         \* get_transcript calls made by the current invocation
    invocations    \* number of invocations of the tool so far

loopVars == <<input_items, user_input, line, pc, printed, passed, turnAppended,
              turns, cycles, appends, consumed, lastEvent, turnOutputs,
              runtimeRaised>>
toolVars == <<tpc, url, video_id, transcript, formatted_entries, result, error,
              calls, invocations>>
vars == <<loopVars, toolVars>>

----------------------------------------------------------------------------
(* Bounds of the model *)

\* lines read in one session
MaxCycles == 3
\* events the runtime streams in one session
MaxEvents == 3
\* tool invocations in one session
MaxInvocations == 2
\* records in one transcript
MaxRecords == 2

----------------------------------------------------------------------------
(* Characters and strings *)

Digits == <<"0", "1", "2", "3", "4", "5", "6", "7", "8", "9">>
UpperCase == <<"A", "B", "C", "D", "E", "F", "G", "H", "I", "J", "K", "L", "M",
               "N", "O", "P", "Q", "R", "S", "T", "U", "V", "W", "X", "Y", "Z">>
LowerCase == <<"a", "b", "c", "d", "e", "f", "g", "h", "i", "j", "k", "l", "m",
               "n", "o", "p", "q", "r", "s", "t", "u", "v", "w", "x", "y", "z">>

Range(s) == {s[i] : i \in DOMAIN s}

\* str.strip() with no argument removes leading and trailing whitespace
\* (the ASCII whitespace a terminal line can hold; Python strips the other
\* Unicode whitespace characters as well)
Whitespace == {" ", "\t", "\n", "\r", "\f"}

RECURSIVE LStrip(_)
LStrip(s) == IF s # <<>> /\ Head(s) \in Whitespace THEN LStrip(Tail(s)) ELSE s

RECURSIVE RStrip(_)
RStrip(s) ==
    IF s # <<>> /\ s[Len(s)] \in Whitespace
    THEN RStrip(SubSeq(s, 1, Len(s) - 1))
    ELSE s

\* a strip that forgets the trailing whitespace
StripLeadingOnly(s) == LStrip(s)

Strip(s) == RStrip(LStrip(s))

\* str.lower(): A-Z become a-z, every other character is kept
LowerChar(c) ==
    IF c \in Range(UpperCase)
    THEN LowerCase[CHOOSE i \in DOMAIN UpperCase : UpperCase[i] = c]
    ELSE c

Lower(s) == [i \in DOMAIN s |-> LowerChar(s[i])]

----------------------------------------------------------------------------
(* main(): the data it handles *)

\* the lines input() may return (raw, before strip)
Lines == {
    <<"e", "x", "i", "t">>,
    <<"E", "X", "I", "T">>,
    <<" ", " ", "q", "u", "i", "t", " ">>,
    <<"b", "y", "e">>,
    <<"Q", "u", "i", "t", "\t">>,
    <<>>,
    <<" ", "\t">>,
    <<"h", "i">>,
    <<" ", "b", "y", "e", " ", "n", "o", "w">>
}

ExitCommands == {<<"e", "x", "i", "t">>, <<"q", "u", "i", "t">>, <<"b", "y", "e">>}

\* event.item.raw_item is an object of the runtime: the model keeps the text
\* of the message it stands for and what str() of the object gives
NoRawItem == [text |-> <<>>, rendering |-> <<>>]

NoEvent == [type |-> "none", isDelta |-> FALSE, delta |-> "",
            item_type |-> "none", output |-> <<>>, raw_item |-> NoRawItem]

\* outputs a tool call may carry (event.item.output)
Outputs == {<<"X">>, <<"[", "0", "0", ":", "0", "0", "]", " ", "a">>}

\* the raw items of message outputs: one that renders as its text, and one
\* that renders as a dump of its fields, as a message object does
RawItems == {
    [text |-> <<"o", "k">>, rendering |-> <<"o", "k">>],
    [text |-> <<"o", "k">>,
     rendering |-> <<"r", "o", "l", "e", "=", "'", "a", "s", "s", "i", "s", "t", "a",
                     "n", "t", "'", " ", "t", "e", "x", "t", "=", "'", "o", "k", "'">>]
}

\* fragments of streamed text (event.data.delta)
Deltas == {"Hel", "lo"}

RawEvent(isDelta, delta) ==
    [NoEvent EXCEPT !.type = "raw_response_event", !.isDelta = isDelta, !.delta = delta]
ItemEvent(item_type, output, raw_item) ==
    [NoEvent EXCEPT !.type = "run_item_stream_event", !.item_type = item_type,
                    !.output = output, !.raw_item = raw_item]

TextDeltaEvents == {RawEvent(TRUE, d) : d \in Deltas}
AgentUpdatedEvents == {[NoEvent EXCEPT !.type = "agent_updated_stream_event"]}
ToolCallEvents == {ItemEvent("tool_call_item", <<>>, NoRawItem)}
ToolOutputEvents == {ItemEvent("tool_call_output_item", o, NoRawItem) : o \in Outputs}
MessageOutputEvents == {ItemEvent("message_output_item", <<>>, r) : r \in RawItems}
\* kinds the if/elif chain does not name: a raw response event whose data is
\* not a text delta, a run item of another type, an event of another type
UnknownEvents == {RawEvent(FALSE, ""),
                  ItemEvent("reasoning_item", <<>>, NoRawItem),
                  [NoEvent EXCEPT !.type = "future_stream_event"]}

Events == TextDeltaEvents \cup AgentUpdatedEvents \cup ToolCallEvents
          \cup ToolOutputEvents \cup MessageOutputEvents \cup UnknownEvents

----------------------------------------------------------------------------
(* main(): the operations on the history *)

\* a list update that overwrites the last item instead of growing the list
AppendItemOverwriting(items, item) ==
    IF items = <<>> THEN <<item>> ELSE [items EXCEPT ![Len(items)] = item]

\* a list update that puts the new item first
AppendItemAtFront(items, item) == <<item>> \o items

\* list.append
AppendItem(items, item) == Append(items, item)

UserItem(text) == [content |-> text, role |-> "user"]

\* an exit test that forgets .lower()
IsExitCommandCaseSensitive(text) == text \in ExitCommands

IsExitCommand(text) == Lower(text) \in ExitCommands

\* f"Transcript:\n{event.item.output}"
TranscriptPrefix == <<"T", "r", "a", "n", "s", "c", "r", "i", "p", "t", ":", "\n">>
\* a tool-output item that drops the "Transcript:\n" prefix
ToolOutputItemBare(e) == [content |-> e.output, role |-> "system"]

ToolOutputItem(e) == [content |-> TranscriptPrefix \o e.output, role |-> "system"]

\* f"{event.item.raw_item}": str() of the object
MessageOutputItem(e) == [content |-> e.raw_item.rendering, role |-> "assistant"]

\* the branches of the event loop that match no recognised kind
\* a fall-through branch that records the event it does not know
IgnoreEventRecording(items, e) ==
    Append(items, [content |-> <<"?">>, role |-> "system"])

IgnoreEvent(items, e) == items
IgnoredPrint(e) == <<>>

\* a loop body that also records the streamed text fragments
DispatchRecordingDeltas(items, e) ==
    IF e.type = "raw_response_event" /\ e.isDelta
    THEN Append(items, [content |-> <<"d">>, role |-> "assistant"])
    ELSE IF e.type = "run_item_stream_event" /\ e.item_type = "tool_call_output_item"
    THEN Append(items, ToolOutputItem(e))
    ELSE IF e.type = "run_item_stream_event" /\ e.item_type = "message_output_item"
    THEN Append(items, MessageOutputItem(e))
    ELSE items

\* the history after the body of the async-for loop has handled event e
Dispatch(items, e) ==
    IF e.type = "raw_response_event" /\ e.isDelta THEN items
    ELSE IF e.type = "agent_updated_stream_event" THEN items
    ELSE IF e.type = "run_item_stream_event" THEN
        IF e.item_type = "tool_call_item" THEN items
        ELSE IF e.item_type = "tool_call_output_item"
            THEN AppendItem(items, ToolOutputItem(e))
        ELSE IF e.item_type = "message_output_item"
            THEN AppendItem(items, MessageOutputItem(e))
        ELSE IgnoreEvent(items, e)
    ELSE IgnoreEvent(items, e)

\* what the body of the async-for loop prints for event e
DispatchPrint(e) ==
    IF e.type = "raw_response_event" /\ e.isDelta THEN <<e.delta>>
    ELSE IF e.type = "agent_updated_stream_event" THEN <<>>
    ELSE IF e.type = "run_item_stream_event" THEN
        IF e.item_type = "tool_call_item" THEN <<"\n-- Fetching transcript...">>
        ELSE IF e.item_type = "tool_call_output_item" THEN <<"-- Transcript fetched.">>
        ELSE IF e.item_type = "message_output_item" THEN <<>>
        ELSE IgnoredPrint(e)
    ELSE IgnoredPrint(e)

\* the number of input_items.append calls the loop body makes for event e
AppendCalls(e) ==
    IF e.type = "run_item_stream_event"
       /\ e.item_type \in {"tool_call_output_item", "message_output_item"}
    THEN 1 ELSE 0

\* Runner.run_streamed(agent, input=input_items): what the runtime is given
\* a snapshot taken before the user's item was appended
SnapshotStale(items) == SubSeq(items, 1, Len(items) - 1)

Snapshot(items) == items

Prompt == "\nYou: "

----------------------------------------------------------------------------
(* main(): the steps, each from one suspension point to the next *)

\* a loop that would read the next line while a stream is still consumed
WaitingOrStreaming == pc \in {"waiting", "streaming"} /\ cycles < MaxCycles

\* the loop is blocked in input()
Waiting == pc = "waiting" /\ cycles < MaxCycles

\* input() returns, the line is stripped and appended: what every cycle does
ReadLine(l) ==
    /\ line' = l
    /\ user_input' = Strip(l)
    /\ cycles' = cycles + 1
    /\ appends' = appends + 1
    /\ consumed' = consumed
    /\ lastEvent' = NoEvent

\* the line is an exit command: farewell and break
ReadExit ==
    /\ Waiting
    /\ \E l \in Lines :
        /\ ReadLine(l)
        /\ input_items' = AppendItem(input_items, UserItem(Strip(l)))
        /\ IsExitCommand(Strip(l))
        /\ printed' = <<"Goodbye!">>
        /\ pc' = "terminated"
        /\ UNCHANGED <<passed, turnAppended, turns, turnOutputs, runtimeRaised,
                       toolVars>>

\* an empty-input test placed before the append
ReadEmptyNotAppending ==
    /\ Waiting
    /\ \E l \in Lines :
        /\ Strip(l) = <<>>
        /\ line' = l
        /\ user_input' = Strip(l)
        /\ cycles' = cycles + 1
        /\ printed' = <<Prompt>>
        /\ lastEvent' = NoEvent
        /\ UNCHANGED <<input_items, pc, passed, turnAppended, turns, appends,
                       consumed, turnOutputs, runtimeRaised, toolVars>>

\* the stripped line is empty: continue
ReadEmpty ==
    /\ Waiting
    /\ \E l \in Lines :
        /\ ReadLine(l)
        /\ input_items' = AppendItem(input_items, UserItem(Strip(l)))
        /\ ~IsExitCommand(Strip(l))
        /\ Strip(l) = <<>>
        /\ printed' = <<Prompt>>
        /\ pc' = "waiting"
        /\ UNCHANGED <<passed, turnAppended, turns, turnOutputs, runtimeRaised,
                       toolVars>>

\* any other line: the agent is run and the loop awaits its first event
ReadAndRun ==
    /\ Waiting
    /\ \E l \in Lines :
        /\ ReadLine(l)
        /\ input_items' = AppendItem(input_items, UserItem(Strip(l)))
        /\ ~IsExitCommand(Strip(l))
        /\ Strip(l) # <<>>
        /\ printed' = <<"\nAgent: ">>
        /\ passed' = Snapshot(input_items')
        /\ turnAppended' = <<>>
        /\ turns' = turns + 1
        /\ turnOutputs' = <<>>
        /\ pc' = "streaming"
        /\ UNCHANGED <<runtimeRaised, toolVars>>

\* any other line, but Runner.run_streamed raises: nothing in main() catches
\* it, so it leaves the while loop and main()
RunStreamedRaises ==
    /\ Waiting
    /\ \E l \in Lines :
        /\ ReadLine(l)
        /\ input_items' = AppendItem(input_items, UserItem(Strip(l)))
        /\ ~IsExitCommand(Strip(l))
        /\ Strip(l) # <<>>
        /\ printed' = <<"\nAgent: ">>
        /\ passed' = Snapshot(input_items')
        /\ turnAppended' = <<>>
        /\ turns' = turns + 1
        /\ turnOutputs' = <<>>
        /\ runtimeRaised' = TRUE
        /\ pc' = "crashed"
        /\ UNCHANGED toolVars

\* the stream yields one event and the loop body handles it
HandleEvent ==
    /\ pc = "streaming"
    /\ consumed < MaxEvents
    /\ \E e \in Events :
        /\ input_items' = Dispatch(input_items, e)
        /\ printed' = DispatchPrint(e)
        /\ turnAppended' = turnAppended
                \o SubSeq(Dispatch(input_items, e), Len(input_items) + 1,
                          Len(Dispatch(input_items, e)))
        /\ appends' = appends + AppendCalls(e)
        /\ consumed' = consumed + 1
        /\ lastEvent' = e
        /\ turnOutputs' = IF e \in ToolOutputEvents \cup MessageOutputEvents
                          THEN Append(turnOutputs, e) ELSE turnOutputs
        /\ UNCHANGED <<user_input, line, pc, passed, turns, cycles, runtimeRaised,
                       toolVars>>

\* the stream is exhausted: newline, back to input()
StreamExhausted ==
    /\ pc = "streaming"
    /\ printed' = <<"\n", Prompt>>
    /\ pc' = "waiting"
    /\ lastEvent' = NoEvent
    /\ UNCHANGED <<input_items, user_input, line, passed, turnAppended, turns,
                   cycles, appends, consumed, turnOutputs, runtimeRaised, toolVars>>

\* the runtime raises while the stream is consumed: nothing in main() catches
\* it, so it leaves the while loop and main()
StreamRaises ==
    /\ pc = "streaming"
    /\ printed' = <<>>
    /\ pc' = "crashed"
    /\ lastEvent' = NoEvent
    /\ runtimeRaised' = TRUE
    /\ UNCHANGED <<input_items, user_input, line, passed, turnAppended, turns,
                   cycles, appends, consumed, turnOutputs, toolVars>>

LoopInit ==
    /\ input_items = <<>>
    /\ user_input = <<>>
    /\ line = <<>>
    /\ pc = "waiting"
    /\ printed = <<"== YouTube Transcript Agent ==",
                   "Type 'exit' to end the conversation",
                   "Ask me anything about YouTube videos!", Prompt>>
    /\ passed = <<>>
    /\ turnAppended = <<>>
    /\ turns = 0
    /\ cycles = 0
    /\ appends = 0
    /\ consumed = 0
    /\ lastEvent = NoEvent
    /\ turnOutputs = <<>>
    /\ runtimeRaised = FALSE

----------------------------------------------------------------------------
(* fetch_youtube_transcript(): video-id extraction *)

\* {11} in video_id_pattern
IdLen == 11

\* [0-9A-Za-z_-]
IdChars == Range(Digits) \cup Range(UpperCase) \cup Range(LowerCase) \cup {"_", "-"}

StartsWith(s, p) == Len(s) >= Len(p) /\ SubSeq(s, 1, Len(p)) = p

NoMatch == [matched |-> FALSE, group1 |-> <<>>]

\* the length of what (?:v=|\/) matches at the start of u, 0 if it does not
SeparatorAtStart(u) ==
    IF StartsWith(u, <<"v", "=">>) THEN 2
    ELSE IF StartsWith(u, <<"/">>) THEN 1
    ELSE 0

\* re.search in place of re.match: the first place in u where a separator
\* and IdLen identifier characters stand
VideoIdSearch(u) ==
    LET at == {i \in 1..Len(u) :
                  \E n \in {1, 2} :
                      /\ i + n + IdLen - 1 <= Len(u)
                      /\ SubSeq(u, i, i + n - 1) \in {<<"v", "=">>, <<"/">>}
                      /\ \A k \in (i + n)..(i + n + IdLen - 1) : u[k] \in IdChars}
    IN  IF at = {} THEN NoMatch
        ELSE LET i == CHOOSE j \in at : \A k \in at : j <= k
                 n == IF SubSeq(u, i, i) = <<"/">> THEN 1 ELSE 2
             IN  [matched |-> TRUE, group1 |-> SubSeq(u, i + n, i + n + IdLen - 1)]

\* a pattern with {1,11} in place of {11}: it takes the run that is there
VideoIdMatchPartial(u) ==
    LET sep == SeparatorAtStart(u)
        run == {n \in 1..IdLen : /\ Len(u) >= sep + n
                                 /\ \A i \in (sep + 1)..(sep + n) : u[i] \in IdChars}
    IN  IF sep > 0 /\ run # {}
        THEN [matched |-> TRUE,
              group1 |-> SubSeq(u, sep + 1, sep + CHOOSE n \in run : \A m \in run : m <= n)]
        ELSE NoMatch

\* re.match(video_id_pattern, url): the pattern is tried at the start of the
\* string only; the trailing .* matches whatever follows the identifier
VideoIdMatch(u) ==
    LET sep == SeparatorAtStart(u)
    IN  IF /\ sep > 0
           /\ Len(u) >= sep + IdLen
           /\ \A i \in (sep + 1)..(sep + IdLen) : u[i] \in IdChars
        THEN [matched |-> TRUE, group1 |-> SubSeq(u, sep + 1, sep + IdLen)]
        ELSE NoMatch

\* the URLs the tool is called with: a prefix, a separator or none, a run of
\* 0..IdLen+1 identifier characters, and a suffix
IdSource == <<"d", "Q", "w", "4", "w", "9", "W", "g", "X", "c", "Q", "_", "-", "0">>
Prefixes == {
    <<>>,
    <<"h", "t", "t", "p", "s", ":", "/", "/", "y", "o", "u", "t", "u", ".", "b", "e">>,
    <<"h", "t", "t", "p", "s", ":", "/", "/", "w", "w", "w", ".", "y", "o", "u", "t",
      "u", "b", "e", ".", "c", "o", "m", "/", "w", "a", "t", "c", "h", "?">>
}
Separators == {<<"v", "=">>, <<"/">>}
Suffixes == {<<>>, <<"&", "t", "=", "1", "s">>}
Urls == {p \o sep \o SubSeq(IdSource, 1, n) \o suf :
            p \in Prefixes, sep \in Separators \cup {<<>>},
            n \in 0..(IdLen + 1), suf \in Suffixes}

----------------------------------------------------------------------------
(* fetch_youtube_transcript(): formatting *)

\* entry['start'] is a float of seconds; the model counts it in 1/Den seconds
Den == 4

\* a minute count that wraps at the hour
MinutesOfWrapped(start) == (start \div (60 * Den)) % 60

\* int(entry['start'] // 60)
MinutesOf(start) == start \div (60 * Den)

\* int(entry['start'] % 60)
SecondsOf(start) == (start % (60 * Den)) \div Den

RECURSIVE DecimalDigits(_)
DecimalDigits(n) ==
    IF n < 10 THEN <<Digits[n + 1]>>
    ELSE DecimalDigits(n \div 10) \o <<Digits[(n % 10) + 1]>>

\* the format spec 02d
Pad2(n) == IF n < 10 THEN <<"0">> \o DecimalDigits(n) ELSE DecimalDigits(n)

\* f"[{minutes:02d}:{seconds:02d}]"
Timestamp(start) ==
    <<"[">> \o Pad2(MinutesOf(start)) \o <<":">> \o Pad2(SecondsOf(start)) \o <<"]">>

\* f"{timestamp} {entry['text']}"
FormatEntry(entry) == Timestamp(entry.start) \o <<" ">> \o entry.text

\* "\n".join(formatted_entries)
RECURSIVE Join(_)
Join(entries) ==
    IF entries = <<>> THEN <<>>
    ELSE IF Len(entries) = 1 THEN entries[1]
    ELSE entries[1] \o <<"\n">> \o Join(Tail(entries))

\* the records the transcript source returns
StartSamples == {m * 60 * Den + sec * Den + f :
                    m \in {0, 60, 100}, sec \in {0, 59}, f \in {0, Den - 1}}
Texts == {<<"a">>, <<"b", "\n", "c">>}
Records == [start : StartSamples, text : Texts]
Transcripts == UNION {[1..n -> Records] : n \in 0..MaxRecords}

\* the failures the transcript source raises, by their message
Causes == {"Subtitles are disabled for this video", "Video unavailable"}

\* results the for loop cannot process (an entry without 'start'), and the
\* message of the KeyError it raises on them
Unprocessable == {<<[text |-> <<"a">>]>>}
ProcessingCauses == {"'start'"}

----------------------------------------------------------------------------
(* fetch_youtube_transcript(): the steps *)

NoError == [type |-> "none", message |-> <<>>]

\* an invalid URL reported through the wrapping Exception
InvalidUrlErrorWrapped ==
    [type |-> "Exception",
     message |-> <<"Error fetching transcript: ",
                   "Invalid YouTube URL. Please provide a valid YouTube video URL.",
                   ". This could be due to: ",
                   "video not found, transcript not available, or API limitations.">>]

InvalidUrlError ==
    [type |-> "ValueError",
     message |-> <<"Invalid YouTube URL. Please provide a valid YouTube video URL.">>]

\* the exception raised by the except clause for cause e
WrappedError(e) ==
    [type |-> "Exception",
     message |-> <<"Error fetching transcript: ", e, ". This could be due to: ",
                   "video not found, transcript not available, or API limitations.">>]

\* the tool is not running and the runtime may call it
Callable == tpc = "idle" /\ invocations < MaxInvocations

\* the runtime calls the tool with u
Call(u) ==
    /\ invocations' = invocations + 1
    /\ url' = u
    /\ transcript' = <<>>
    /\ formatted_entries' = <<>>
    /\ result' = <<>>

\* the pattern does not match: ValueError
CallInvalidUrl ==
    /\ Callable
    /\ \E u \in Urls :
        /\ Call(u)
        /\ ~VideoIdMatch(u).matched
        /\ video_id' = <<>>
        /\ error' = InvalidUrlError
        /\ calls' = 0
        /\ tpc' = "raised"
        /\ UNCHANGED loopVars

\* the pattern matches: get_transcript is called with group(1)
CallGetTranscript ==
    /\ Callable
    /\ \E u \in Urls :
        /\ Call(u)
        /\ VideoIdMatch(u).matched
        /\ video_id' = VideoIdMatch(u).group1
        /\ error' = NoError
        /\ calls' = 1
        /\ tpc' = "fetching"
        /\ UNCHANGED loopVars

\* get_transcript returns: every entry is formatted, the lines are joined
GetTranscriptReturns ==
    /\ tpc = "fetching"
    /\ \E t \in Transcripts :
        /\ transcript' = t
        /\ formatted_entries' = [i \in DOMAIN t |-> FormatEntry(t[i])]
        /\ result' = Join(formatted_entries')
        /\ tpc' = "returned"
        /\ UNCHANGED <<url, video_id, error, calls, invocations, loopVars>>

\* an except clause that calls get_transcript again
GetTranscriptRaisesRetrying ==
    /\ tpc = "fetching"
    /\ \E e \in Causes :
        /\ calls < 2
        /\ calls' = calls + 1
        /\ UNCHANGED <<tpc, url, video_id, transcript, formatted_entries, result,
                       error, invocations, loopVars>>

\* get_transcript raises: the except clause raises the wrapping Exception
GetTranscriptRaises ==
    /\ tpc = "fetching"
    /\ \E e \in Causes :
        /\ error' = WrappedError(e)
        /\ tpc' = "raised"
        /\ UNCHANGED <<url, video_id, transcript, formatted_entries, result,
                       calls, invocations, loopVars>>

\* get_transcript returns something the for loop raises on: the except
\* clause wraps that exception too
ProcessingRaises ==
    /\ tpc = "fetching"
    /\ \E t \in Unprocessable, e \in ProcessingCauses :
        /\ transcript' = t
        /\ error' = WrappedError(e)
        /\ tpc' = "raised"
        /\ UNCHANGED <<url, video_id, formatted_entries, result, calls,
                       invocations, loopVars>>

\* the invocation is over: its result or exception is with the runtime, its
\* locals are gone
Finish ==
    /\ tpc \in {"returned", "raised"}
    /\ tpc' = "idle"
    /\ url' = <<>>
    /\ video_id' = <<>>
    /\ transcript' = <<>>
    /\ formatted_entries' = <<>>
    /\ result' = <<>>
    /\ error' = NoError
    /\ calls' = 0
    /\ UNCHANGED <<invocations, loopVars>>

ToolIdle ==
    /\ tpc = "idle"
    /\ url = <<>>
    /\ video_id = <<>>
    /\ transcript = <<>>
    /\ formatted_entries = <<>>
    /\ result = <<>>
    /\ error = NoError
    /\ calls = 0
    /\ invocations = 0

Init == LoopInit /\ ToolIdle

Next ==
    \/ ReadExit
    \/ ReadEmpty
    \/ ReadAndRun
    \/ RunStreamedRaises
    \/ HandleEvent
    \/ StreamExhausted
    \/ StreamRaises

Spec == Init /\ [][Next]_vars

\* the same, with every stream ending: the async for loop is left, by
\* exhaustion or by an exception
SpecFair == Spec /\ WF_vars(StreamExhausted \/ StreamRaises)

ToolNext ==
    \/ CallInvalidUrl
    \/ CallGetTranscript
    \/ GetTranscriptReturns
    \/ GetTranscriptRaises
    \/ ProcessingRaises
    \/ Finish

\* the tool alone, called with any of Urls, main() not started
SpecTool == Init /\ [][ToolNext]_vars

----------------------------------------------------------------------------
(* Properties of main() *)

IsPrefix(s, t) == Len(s) <= Len(t) /\ SubSeq(t, 1, Len(s)) = s

Last(s) == s[Len(s)]

\* the step read a line
ReadStep == cycles' = cycles + 1

\* the step handled an event
EventStep == consumed' = consumed + 1

\* the step invoked Runner.run_streamed
RunStep == turns' = turns + 1

\* C1: a line whose stripped, lower-cased text is exit, quit or bye ends the
\* loop in the cycle that read it, after its user item was appended and
\* without running the agent; once terminated, nothing is appended and the
\* agent is not run.
ExitTerminatesInSameCycle ==
    [][/\ (ReadStep /\ Lower(Strip(line')) \in ExitCommands)
            => /\ pc' = "terminated"
               /\ input_items' = Append(input_items,
                                        [content |-> Strip(line'), role |-> "user"])
               /\ turns' = turns
       /\ pc = "terminated" => (input_items' = input_items /\ turns' = turns)]_vars

\* C1 witness: "  quit " ended a session in which the agent had run before
ExitAfterATurn ==
    /\ pc = "terminated"
    /\ line = <<" ", " ", "q", "u", "i", "t", " ">>
    /\ turns >= 1
    /\ Last(input_items) = [content |-> <<"q", "u", "i", "t">>, role |-> "user"]

\* C2: handling a tool-call-output event with output X appends exactly the
\* system item "Transcript:\n" + X at the end and changes nothing else of
\* the history.
ToolOutputAppendsOneSystemItem ==
    [][(EventStep /\ lastEvent' \in ToolOutputEvents)
          => input_items' = Append(input_items,
                                   [content |-> TranscriptPrefix \o lastEvent'.output,
                                    role |-> "system"])]_vars

\* C2 witness: a tool output was just handled on a history of several items
ToolOutputHandled ==
    /\ lastEvent \in ToolOutputEvents
    /\ Len(input_items) >= 3
    /\ Last(input_items).role = "system"
    /\ Last(input_items).content = TranscriptPrefix \o lastEvent.output

\* C3: the history is append-only: every step keeps the previous history as
\* a prefix, its length is the number of appends made, and running the agent
\* on it adds nothing beyond the user item appended just before.
HistoryAppendOnly ==
    [][/\ IsPrefix(input_items, input_items')
       /\ Len(input_items') = appends'
       /\ RunStep => /\ input_items' = Append(input_items, UserItem(user_input'))
                     /\ passed' = input_items']_vars

\* C3 witness: a history of user, system and assistant items after two runs
MixedHistory ==
    /\ turns >= 2
    /\ appends >= 4
    /\ {input_items[i].role : i \in DOMAIN input_items} = {"user", "system", "assistant"}

\* C4 as stated: the sequence passed on turn N is the one passed on turn N-1
\* extended by exactly the items appended during turn N-1's dispatch.
NextSnapshotIsOnlyDispatchAppends ==
    [][(RunStep /\ turns >= 1) => passed' = passed \o turnAppended]_vars

\* the items of t after its first n items
Beyond(t, n) == SubSeq(t, n + 1, Len(t))

\* C4 amended: the sequence passed on turn N is the one passed on turn N-1,
\* then the items appended during turn N-1's dispatch, then one user item
\* for each line read since: empty ones, and last the line of turn N.
NextSnapshotAddsDispatchAndUserItems ==
    [][(RunStep /\ turns >= 1)
          => /\ IsPrefix(passed \o turnAppended, passed')
             /\ LET added == Beyond(passed', Len(passed) + Len(turnAppended))
                IN  /\ Len(added) >= 1
                    /\ Last(added) = [content |-> Strip(line'), role |-> "user"]
                    /\ \A i \in 1..(Len(added) - 1) :
                            added[i] = [content |-> <<>>, role |-> "user"]]_vars

\* C4 witness: a second run whose snapshot holds the first run's snapshot,
\* what its dispatch appended, an empty line's item and the new line's item
SecondRunAfterDispatchAndEmptyLine ==
    /\ turns = 2
    /\ pc = "streaming"
    /\ consumed >= 1
    /\ \E n \in 1..Len(passed) :
          /\ Len(passed) >= n + 3
          /\ passed[n + 1].role # "user"
          /\ passed[n + 2] = [content |-> <<>>, role |-> "user"]
          /\ passed[n + 3].role = "user"
          /\ Len(passed) = n + 3

\* an event of none of the kinds the loop body names
Unrecognised(e) ==
    e \notin (TextDeltaEvents \cup AgentUpdatedEvents \cup ToolCallEvents
              \cup ToolOutputEvents \cup MessageOutputEvents)

\* C7: handling an event of no recognised kind leaves the history unchanged,
\* prints nothing, and the loop goes on awaiting the next event.
UnknownEventIgnored ==
    [][(EventStep /\ Unrecognised(lastEvent'))
          => /\ input_items' = input_items
             /\ printed' = <<>>
             /\ pc' = "streaming"]_vars

\* C7 witness: an unknown event was handled after an item had been appended
\* in the same turn
UnknownEventHandled ==
    /\ lastEvent \in UnknownEvents
    /\ lastEvent.type = "future_stream_event"
    /\ pc = "streaming"
    /\ turnAppended # <<>>

----------------------------------------------------------------------------
(* Properties of fetch_youtube_transcript() *)

\* the tool has been called and has not yet handed its outcome over
Invoked == tpc \in {"fetching", "returned", "raised"}

\* sep occurs in u at position i
OccursAt(u, sep, i) ==
    /\ i >= 1
    /\ i + Len(sep) - 1 <= Len(u)
    /\ SubSeq(u, i, i + Len(sep) - 1) = sep

\* the number of identifier characters of u from position i on
RunFrom(u, i) ==
    CHOOSE n \in 0..Len(u) :
        /\ i + n - 1 <= Len(u)
        /\ \A k \in i..(i + n - 1) : u[k] \in IdChars
        /\ (i + n > Len(u) \/ u[i + n] \notin IdChars)

\* u is sep followed by exactly IdLen identifier characters, after anything
EndsWithId(u, sep) ==
    /\ Len(u) >= Len(sep) + IdLen
    /\ OccursAt(u, sep, Len(u) - IdLen - Len(sep) + 1)
    /\ \A k \in (Len(u) - IdLen + 1)..Len(u) : u[k] \in IdChars

WatchSeparator == <<"/", "w", "a", "t", "c", "h", "?", "v", "=">>

\* C5 as stated: for a URL <anything>/watch?v=<id> or <anything>/<id> with
\* an 11-character <id>, extraction succeeds and yields exactly <id>.
DocumentedUrlShapesYieldId ==
    (Invoked /\ (EndsWithId(url, WatchSeparator) \/ EndsWithId(url, <<"/">>)))
        => /\ error.type # "ValueError"
           /\ video_id = SubSeq(url, Len(url) - IdLen + 1, Len(url))

\* the three kinds of malformed input
EmptyUrl(u) == u = <<>>
NoSeparator(u) ==
    \A sep \in Separators : \A i \in 1..Len(u) : ~OccursAt(u, sep, i)
ShortIdentifier(u) ==
    /\ ~NoSeparator(u)
    /\ \A sep \in Separators : \A i \in 1..Len(u) :
            OccursAt(u, sep, i) => RunFrom(u, i + Len(sep)) < IdLen
Malformed(u) == EmptyUrl(u) \/ NoSeparator(u) \/ ShortIdentifier(u)

\* C6: a malformed URL (empty, no separator, or fewer than 11 identifier
\* characters after the separator) makes the tool raise ValueError, with no
\* identifier extracted and no transcript retrieval.
MalformedUrlRaisesValueError ==
    (Invoked /\ Malformed(url))
        => /\ tpc = "raised"
           /\ error = InvalidUrlError
           /\ video_id = <<>>
           /\ calls = 0
           /\ transcript = <<>>

\* C6 witness: "/" and ten identifier characters was rejected
TenCharacterIdRejected ==
    /\ tpc = "raised"
    /\ url = <<"/">> \o SubSeq(IdSource, 1, IdLen - 1)
    /\ error.type = "ValueError"

\* str.split("\n")
RECURSIVE SplitLines(_)
SplitLines(str) ==
    IF \A i \in DOMAIN str : str[i] # "\n" THEN <<str>>
    ELSE LET i == CHOOSE j \in DOMAIN str :
                      str[j] = "\n" /\ \A k \in 1..(j - 1) : str[k] # "\n"
         IN  <<SubSeq(str, 1, i - 1)>> \o SplitLines(SubSeq(str, i + 1, Len(str)))

\* C8 as stated: for a non-empty transcript the returned string has as many
\* lines as there are records, the i-th line rendering the i-th record.
OneLinePerRecord ==
    (tpc = "returned" /\ transcript # <<>>)
        => /\ Len(SplitLines(result)) = Len(transcript)
           /\ \A i \in DOMAIN transcript :
                  SplitLines(result)[i] = FormatEntry(transcript[i])

DigitValue(c) == (CHOOSE i \in DOMAIN Digits : Digits[i] = c) - 1

RECURSIVE DecimalValue(_)
DecimalValue(ds) ==
    IF ds = <<>> THEN 0
    ELSE 10 * DecimalValue(SubSeq(ds, 1, Len(ds) - 1)) + DigitValue(ds[Len(ds)])

FirstIndex(str, c) ==
    CHOOSE j \in DOMAIN str : str[j] = c /\ \A k \in 1..(j - 1) : str[k] # c

\* the line starts with [MM:SS] for the start offset, counted in 1/Den seconds
StampedFor(ln, start) ==
    LET colon == FirstIndex(ln, ":")
        close == FirstIndex(ln, "]")
        mm == SubSeq(ln, 2, colon - 1)
        ss == SubSeq(ln, colon + 1, close - 1)
    IN  /\ ln[1] = "["
        /\ Range(mm) \cup Range(ss) \subseteq Range(Digits)
        /\ Len(mm) >= 2
        /\ Len(mm) > 2 => mm[1] # "0"
        /\ Len(ss) = 2
        /\ DecimalValue(ss) \in 0..59
        /\ 60 * DecimalValue(mm) + DecimalValue(ss) = start \div Den

\* C9: the timestamp of a record with start offset s is [MM:SS] with
\* MM = floor(s / 60) and SS = floor(s mod 60), each padded to at least two
\* digits; MM is neither wrapped at 60 nor truncated, SS is in 0..59.
TimestampIsFloorMinutesAndSeconds ==
    tpc = "returned"
        => \A i \in DOMAIN transcript :
              /\ StampedFor(formatted_entries[i], transcript[i].start)
              /\ transcript[i].start = 3600 * Den
                    => StartsWith(formatted_entries[i],
                                  <<"[", "6", "0", ":", "0", "0", "]">>)
              /\ transcript[i].start = 6000 * Den
                    => StartsWith(formatted_entries[i],
                                  <<"[", "1", "0", "0", ":", "0", "0", "]">>)

\* C9 witness: records at 100 minutes 59.75 seconds and at one hour were
\* formatted
LongVideoFormatted ==
    /\ tpc = "returned"
    /\ Len(transcript) = 2
    /\ transcript[1].start = 3600 * Den
    /\ transcript[2].start = 6000 * Den + 59 * Den + (Den - 1)
    /\ StartsWith(formatted_entries[2],
                  <<"[", "1", "0", "0", ":", "5", "9", "]">>)

\* C10 as stated: every invocation makes exactly one retrieval call.
ExactlyOneRetrievalPerInvocation ==
    tpc \in {"returned", "raised"} => calls = 1

\* C10 amended: an invocation makes no retrieval call when extraction fails
\* and exactly one when it succeeds; a failed retrieval is not retried and
\* no result is returned without a retrieval call of its own invocation.
OneRetrievalUnlessInvalidUrl ==
    /\ tpc = "idle" => calls = 0
    /\ tpc = "fetching" => calls = 1
    /\ tpc = "returned" => calls = 1
    /\ tpc = "raised" => calls = (IF error.type = "ValueError" THEN 0 ELSE 1)
    /\ (tpc = "raised" /\ error.type = "ValueError") <=> (Invoked /\ ~VideoIdMatch(url).matched)

\* C10 witness: a second invocation whose retrieval failed made one call
SecondInvocationFailedOnce ==
    /\ invocations = 2
    /\ tpc = "raised"
    /\ error.type = "Exception"
    /\ calls = 1

\* u begins with a separator and at least IdLen identifier characters
BeginsWithId(u) ==
    \E sep \in Separators :
        OccursAt(u, sep, 1) /\ RunFrom(u, Len(sep) + 1) >= IdLen

\* C11: the tool fails in exactly two ways: ValueError if and only if no
\* video id can be extracted, and the wrapping Exception, whose message
\* embeds the cause's message, if and only if an id was extracted and the
\* retrieval or the processing of its result raised.
FailsInExactlyTwoWays ==
    /\ error.type \in {"none", "ValueError", "Exception"}
    /\ tpc = "raised" <=> error # NoError
    /\ Invoked /\ ~BeginsWithId(url) => tpc = "raised" /\ error.type = "ValueError"
    /\ error.type = "ValueError" => ~BeginsWithId(url) /\ video_id = <<>> /\ calls = 0
    /\ error.type = "Exception"
          => /\ BeginsWithId(url) /\ video_id # <<>> /\ calls = 1
             /\ \E c \in Causes \cup ProcessingCauses :
                    /\ c \in Range(error.message)
                    /\ c \in ProcessingCauses <=> transcript # <<>>
    /\ tpc = "returned" => BeginsWithId(url) /\ error = NoError

\* C11 witness: a result that could not be processed was reported through
\* the wrapping Exception, with the KeyError's message in it
ProcessingFailureWrapped ==
    /\ tpc = "raised"
    /\ error.type = "Exception"
    /\ transcript \in Unprocessable
    /\ error.message[2] = "'start'"

----------------------------------------------------------------------------
(* Further properties of main() *)

\* C12 as stated: when the agent runtime raises, at the start of a turn or
\* while its stream is consumed, only the turn ends: the loop is back at
\* waiting for the next line.
RuntimeFailureEndsOnlyTheTurn ==
    [][(~runtimeRaised /\ runtimeRaised') => pc' = "waiting"]_vars

\* C16 as stated: handling a message-output event with final content C
\* appends exactly one assistant item with content C, changes nothing else
\* of the history and prints nothing.
MessageOutputAppendsItsContent ==
    [][(EventStep /\ lastEvent' \in MessageOutputEvents)
          => /\ input_items' = Append(input_items,
                                      [content |-> lastEvent'.raw_item.text,
                                       role |-> "assistant"])
             /\ printed' = <<>>]_vars

\* C13: an empty stripped line sends the loop back to waiting without
\* running the agent and without dispatching an event; its only effect on
\* the history is one appended user item with empty content.
EmptyLineOnlyAppendsEmptyUserItem ==
    [][(ReadStep /\ Strip(line') = <<>>)
          => /\ pc' = "waiting"
             /\ turns' = turns
             /\ passed' = passed
             /\ consumed' = consumed
             /\ input_items' = Append(input_items, [content |-> <<>>, role |-> "user"])]_vars

\* C13 witness: a line of blanks was read after a turn
BlankLineReadAfterATurn ==
    /\ pc = "waiting"
    /\ line = <<" ", "\t">>
    /\ turns = 1
    /\ printed = <<Prompt>>
    /\ Last(input_items) = [content |-> <<>>, role |-> "user"]

\* C14: one turn at a time: while a stream is being consumed no line is
\* read and the agent is not run again, events are handled only then, and
\* what a turn appended is in the history passed to the next run.
OneTurnInFlight ==
    [][/\ pc = "streaming" => (cycles' = cycles /\ turns' = turns)
       /\ (ReadStep \/ RunStep) => pc = "waiting"
       /\ EventStep => (pc = "streaming" /\ pc' = "streaming")
       /\ (RunStep /\ turns >= 1) => IsPrefix(passed \o turnAppended, passed')]_vars

\* C14 witness: the second turn is streaming and has appended an item
SecondTurnStreaming ==
    /\ pc = "streaming"
    /\ turns = 2
    /\ cycles = 2
    /\ turnOutputs # <<>>

\* what the loop body appends for a tool-output or message-output event
ImageOf(e) ==
    IF e \in ToolOutputEvents
    THEN [content |-> TranscriptPrefix \o e.output, role |-> "system"]
    ELSE [content |-> e.raw_item.rendering, role |-> "assistant"]

\* C15: within a turn the items appended are, in order, exactly the images
\* of the turn's tool-output and message-output events: one system item per
\* tool output and one assistant item per message output, none skipped,
\* duplicated or swapped.
TurnAppendsFollowStreamOrder ==
    pc = "streaming"
        => /\ Len(input_items) = Len(passed) + Len(turnOutputs)
           /\ IsPrefix(passed, input_items)
           /\ \A i \in DOMAIN turnOutputs :
                  input_items[Len(passed) + i] = ImageOf(turnOutputs[i])

\* C15 witness: a turn saw a message output, then a tool output, then one more
ThreeOutputsInOneTurn ==
    /\ pc = "streaming"
    /\ Len(turnOutputs) = 3
    /\ turnOutputs[1] \in MessageOutputEvents
    /\ turnOutputs[2] \in ToolOutputEvents
    /\ input_items[Len(passed) + 1].role = "assistant"
    /\ input_items[Len(passed) + 2].role = "system"

\* C17: a text delta, an agent update and a tool-call start leave the
\* history unchanged; the delta prints its fragment only, the tool-call
\* start prints the fetching notice only, the agent update prints nothing.
StreamingNoticesLeaveHistory ==
    [][/\ (EventStep /\ lastEvent' \in TextDeltaEvents)
            => (input_items' = input_items /\ printed' = <<lastEvent'.delta>>)
       /\ (EventStep /\ lastEvent' \in AgentUpdatedEvents)
            => (input_items' = input_items /\ printed' = <<>>)
       /\ (EventStep /\ lastEvent' \in ToolCallEvents)
            => (input_items' = input_items
                /\ printed' = <<"\n-- Fetching transcript...">>)]_vars

\* C17 witness: the fragment "lo" was printed in a turn that had appended
DeltaPrintedAfterAppend ==
    /\ lastEvent \in TextDeltaEvents
    /\ lastEvent.delta = "lo"
    /\ printed = <<"lo">>
    /\ turnOutputs # <<>>

\* C18 as stated: every turn (its stream ending) gets back to waiting for
\* input; the loop terminates only through an exit command, and an exit
\* command read while waiting terminates it.
EveryTurnReturnsToInput ==
    /\ (pc = "streaming") ~> (pc = "waiting")
    /\ [](pc = "terminated" => Lower(user_input) \in ExitCommands)
    /\ [][(ReadStep /\ Lower(Strip(line')) \in ExitCommands)
             => pc' = "terminated"]_vars

\* s has no whitespace at either end
Trimmed(s) == s = <<>> \/ (s[1] \notin Whitespace /\ s[Len(s)] \notin Whitespace)

UserCount(items) == Cardinality({i \in DOMAIN items : items[i].role = "user"})

\* C20: when the agent is run, the last item passed is the user item of the
\* line just read, trimmed, not empty and not an exit command; every user
\* item holds trimmed text, and every line read adds exactly one user item.
RunsOnTrimmedUserLine ==
    [][/\ RunStep
            => /\ Last(passed') = [content |-> user_input', role |-> "user"]
               /\ Lower(user_input') \notin ExitCommands
               /\ user_input' # <<>>
               /\ passed' = input_items'
       /\ ReadStep
            => /\ Trimmed(user_input')
               /\ LStrip(line') = user_input' \o SubSeq(LStrip(line'),
                                                        Len(user_input') + 1,
                                                        Len(LStrip(line')))
               /\ Range(SubSeq(LStrip(line'), Len(user_input') + 1,
                               Len(LStrip(line')))) \subseteq Whitespace
               /\ \A c \in Range(SubSeq(line', 1, Len(line') - Len(LStrip(line')))) :
                      c \in Whitespace
               /\ UserCount(input_items') = UserCount(input_items) + 1
               /\ Last(input_items') = [content |-> user_input', role |-> "user"]
       /\ \A i \in DOMAIN input_items' :
              input_items'[i].role = "user" => Trimmed(input_items'[i].content)
       /\ UserCount(input_items') = cycles']_vars

\* C20 witness: the agent was run on " bye now", passed as "bye now"
RunOnTrimmedLine ==
    /\ pc = "streaming"
    /\ line = <<" ", "b", "y", "e", " ", "n", "o", "w">>
    /\ Last(passed) = [content |-> <<"b", "y", "e", " ", "n", "o", "w">>, role |-> "user"]
    /\ UserCount(input_items) = 2

----------------------------------------------------------------------------
(* Further properties of fetch_youtube_transcript() *)

====
